---- MODULE Spec2Model ----
(***************************************************************************)
(* Model of src/handlers/produto_handler.py: the eight product endpoint    *)
(* handlers and the decorator pipeline they are wrapped in                 *)
(* (lambda_handler > with_auth > require_permission >                      *)
(* validate_request_body > handler).                                       *)
(*                                                                         *)
(* The handler bodies, their except clauses and the decorator stack of     *)
(* each handler are translated from the handler file.  The decorators      *)
(* themselves, the response builders and the session provider live in      *)
(* utils/lambda_decorators.py, which is not part of the sources at hand;   *)
(* they are modelled from the specification document (sections 4.1-4.4).   *)
(*                                                                         *)
(* Strings the code parses (path identifiers, skip, limit) are sequences   *)
(* of one-character strings, so that UUID(...) and int(...) are computed   *)
(* rather than assumed.                                                    *)
(***************************************************************************)
EXTENDS Integers, Sequences, FiniteSets, TLC

\* ------------------------------------------------------------------------
\* Bounds
\* ------------------------------------------------------------------------

\* number of concurrently running invocations in ConcSpec
MaxInv == 2

\* ------------------------------------------------------------------------
\* Program constants
\* ------------------------------------------------------------------------

DefaultSkip == 0
DefaultLimit == 100
MinLimit == 1
MaxLimit == 1000
UUIDHexLen == 32

\* ------------------------------------------------------------------------
\* Characters and strings
\* ------------------------------------------------------------------------

Digits == {"0", "1", "2", "3", "4", "5", "6", "7", "8", "9"}
LowerHex == {"a", "b", "c", "d", "e", "f"}
UpperHex == {"A", "B", "C", "D", "E", "F"}
HexChars == Digits \cup LowerHex \cup UpperHex

DigitVal(c) ==
    CASE c = "0" -> 0 [] c = "1" -> 1 [] c = "2" -> 2 [] c = "3" -> 3
      [] c = "4" -> 4 [] c = "5" -> 5 [] c = "6" -> 6 [] c = "7" -> 7
      [] c = "8" -> 8 [] c = "9" -> 9

\* str.lower() on one hexadecimal character
LowerChar(c) ==
    CASE c = "A" -> "a" [] c = "B" -> "b" [] c = "C" -> "c"
      [] c = "D" -> "d" [] c = "E" -> "e" [] c = "F" -> "f"
      [] OTHER -> c

RECURSIVE RemoveChar(_, _)
RemoveChar(s, c) ==
    IF s = <<>> THEN <<>>
    ELSE IF Head(s) = c THEN RemoveChar(Tail(s), c)
    ELSE <<Head(s)>> \o RemoveChar(Tail(s), c)

RECURSIVE LStrip(_, _)
LStrip(s, cs) ==
    IF s # <<>> /\ Head(s) \in cs THEN LStrip(Tail(s), cs) ELSE s

RECURSIVE RStrip(_, _)
RStrip(s, cs) ==
    IF s # <<>> /\ s[Len(s)] \in cs THEN RStrip(SubSeq(s, 1, Len(s) - 1), cs) ELSE s

RECURSIVE DecValue(_, _)
DecValue(s, acc) ==
    IF s = <<>> THEN acc ELSE DecValue(Tail(s), acc * 10 + DigitVal(Head(s)))

\* a value read from a mapping with .get(): present or not, and the string
Absent == [present |-> FALSE, val |-> <<>>]
Given(s) == [present |-> TRUE, val |-> s]

\* Python truthiness of the result of mapping.get(key): None and "" are falsy
Falsy(p) == ~p.present \/ p.val = <<>>

\* int(x) for a string x: optional sign, then at least one decimal digit;
\* anything else raises ValueError
IntOfStr(s) ==
    LET signed == s # <<>> /\ Head(s) \in {"-", "+"}
        body == IF signed THEN Tail(s) ELSE s
        wellFormed == body # <<>> /\ \A k \in 1..Len(body) : body[k] \in Digits
    IN  IF ~wellFormed THEN [ok |-> FALSE, val |-> 0]
        ELSE [ok |-> TRUE,
              val |-> IF signed /\ Head(s) = "-" THEN 0 - DecValue(body, 0)
                      ELSE DecValue(body, 0)]

\* int(query_params.get(key, default)): the default is already an integer
IntOfQuery(p, default) ==
    IF p.present THEN IntOfStr(p.val) ELSE [ok |-> TRUE, val |-> default]

\* uuid.UUID(hex): braces stripped, hyphens removed, 32 hexadecimal digits
\* required; the value is the 128-bit number, kept here as its lowercase digits
UUIDOfStr(s) ==
    LET hex == RemoveChar(RStrip(LStrip(s, {"{", "}"}), {"{", "}"}), "-")
    IN  IF Len(hex) = UUIDHexLen /\ \A k \in 1..Len(hex) : hex[k] \in HexChars
        THEN [ok |-> TRUE, val |-> [k \in 1..Len(hex) |-> LowerChar(hex[k])]]
        ELSE [ok |-> FALSE, val |-> <<>>]

\* str(uuid): 8-4-4-4-12 lowercase
UUIDStr(u) ==
    SubSeq(u, 1, 8) \o <<"-">> \o SubSeq(u, 9, 12) \o <<"-">> \o
    SubSeq(u, 13, 16) \o <<"-">> \o SubSeq(u, 17, 20) \o <<"-">> \o
    SubSeq(u, 21, 32)

\* ------------------------------------------------------------------------
\* Endpoints and their decorator stacks
\* ------------------------------------------------------------------------

Endpoints ==
    {"create_product_handler", "get_product_handler", "get_product_by_sku_handler",
     "list_products_handler", "update_product_handler", "delete_product_handler",
     "search_products_handler", "get_products_by_category_handler"}

\* the argument of @require_permission on each handler
RequiredPermission(e) ==
    CASE e = "create_product_handler" -> "estoque:write"
      [] e = "get_product_handler" -> "estoque:write"
      [] e = "get_product_by_sku_handler" -> "estoque:write"
      [] e = "list_products_handler" -> "estoque:write"
      [] e = "update_product_handler" -> "estoque:write"
      [] e = "delete_product_handler" -> "estoque:write"
      [] e = "search_products_handler" -> "estoque:write"
      [] e = "get_products_by_category_handler" -> "estoque:write"

\* the handlers decorated with @validate_request_body(<DTO>)
HasBodySchema(e) ==
    e \in {"create_product_handler", "update_product_handler", "search_products_handler"}

\* variant: the body validator stacked outside the auth decorators
DecoratorStackValidateFirst(e) ==
    (IF HasBodySchema(e) THEN <<"validate_request_body">> ELSE <<>>)
        \o <<"with_auth", "require_permission", "handler">>

\* the decorators between lambda_handler and the handler body, outermost first
DecoratorStack(e) ==
    <<"with_auth", "require_permission">>
        \o (IF HasBodySchema(e) THEN <<"validate_request_body">> ELSE <<>>)
        \o <<"handler">>

\* the stage that runs once stage s of endpoint e lets the request through
NextStage(e, s) ==
    LET st == DecoratorStack(e)
        k == CHOOSE j \in 1..Len(st) : st[j] = s
    IN  st[k + 1]

\* ------------------------------------------------------------------------
\* Results and exceptions
\* ------------------------------------------------------------------------

NoExc == [cls |-> "none", status |-> 0, text |-> "", arg |-> <<>>]

LambdaException(status, text, arg) ==
    [cls |-> "LambdaException", status |-> status, text |-> text, arg |-> arg]

\* an exception of another class; text is its message
Raised(cls, text) == [cls |-> cls, status |-> 0, text |-> text, arg |-> <<>>]

success_response(data) == [cls |-> "return", status |-> 200, text |-> data, arg |-> <<>>]

created_response(data) == [cls |-> "return", status |-> 201, text |-> data, arg |-> <<>>]

\* isinstance(exc, cls): every class raised here derives from Exception
IsInstance(exc, cls) == cls = "Exception" \/ exc.cls = cls

\* ------------------------------------------------------------------------
\* Handler bodies
\* ------------------------------------------------------------------------

NoCall == [op |-> "none", id |-> <<>>, skip |-> 0, limit |-> 0]

ServiceCall(op, id, skip, limit) == [op |-> op, id |-> id, skip |-> skip, limit |-> limit]

\* variant: the path string handed to the service without the UUID check
ParseProductIdUnchecked(path) ==
    IF Falsy(path)
    THEN [exc |-> LambdaException(400, "product_id is required", <<>>), uuid |-> <<>>]
    ELSE [exc |-> NoExc, uuid |-> path.val]

\* product_id = path_params.get("product_id"); required; UUID(product_id)
ParseProductId(path) ==
    IF Falsy(path)
    THEN [exc |-> LambdaException(400, "product_id is required", <<>>), uuid |-> <<>>]
    ELSE LET u == UUIDOfStr(path.val)
         IN  IF ~u.ok
             THEN [exc |-> LambdaException(400, "Invalid product_id format", <<>>),
                   uuid |-> <<>>]
             ELSE [exc |-> NoExc, uuid |-> u.val]

\* variant: the limit check made before the skip check
ValidatePaginationLimitFirst(skip, limit) ==
    IF limit < MinLimit \/ limit > MaxLimit
    THEN LambdaException(400, "limit must be between 1 and 1000", <<>>)
    ELSE IF skip < 0 THEN LambdaException(400, "skip must be >= 0", <<>>)
         ELSE NoExc

\* the two pagination checks, in the order the handlers make them
ValidatePagination(skip, limit) ==
    IF skip < 0 THEN LambdaException(400, "skip must be >= 0", <<>>)
    ELSE IF limit < MinLimit \/ limit > MaxLimit
         THEN LambdaException(400, "limit must be between 1 and 1000", <<>>)
         ELSE NoExc

\* skip = int(query_params.get("skip", 0)); limit = int(query_params.get("limit", 100));
\* then the checks.  An int() failure is a ValueError raised inside the try body.
ParsePagination(qskip, qlimit) ==
    LET s == IntOfQuery(qskip, DefaultSkip)
        l == IntOfQuery(qlimit, DefaultLimit)
    IN  IF ~s.ok THEN [exc |-> Raised("ValueError", "invalid literal for int()"),
                       skip |-> 0, limit |-> 0]
        ELSE IF ~l.ok THEN [exc |-> Raised("ValueError", "invalid literal for int()"),
                            skip |-> 0, limit |-> 0]
        ELSE [exc |-> ValidatePagination(s.val, l.val), skip |-> s.val, limit |-> l.val]

\* The try body of handler e up to its await of the domain service: either an
\* exception raised before the call, or the call that is made.
PreCall(e, r) ==
    CASE e = "create_product_handler" ->
            [exc |-> NoExc, call |-> ServiceCall("create_product", <<>>, 0, 0)]
      [] e = "get_product_handler" ->
            LET p == ParseProductId(r.path)
            IN  [exc |-> p.exc, call |-> ServiceCall("get_product_by_id", p.uuid, 0, 0)]
      [] e = "get_product_by_sku_handler" ->
            IF Falsy(r.path)
            THEN [exc |-> LambdaException(400, "sku is required", <<>>), call |-> NoCall]
            ELSE [exc |-> NoExc, call |-> ServiceCall("get_product_by_sku", r.path.val, 0, 0)]
      [] e = "list_products_handler" ->
            LET p == ParsePagination(r.skip, r.limit)
            IN  [exc |-> p.exc, call |-> ServiceCall("get_products", <<>>, p.skip, p.limit)]
      [] e = "update_product_handler" ->
            LET p == ParseProductId(r.path)
            IN  [exc |-> p.exc, call |-> ServiceCall("update_product", p.uuid, 0, 0)]
      [] e = "delete_product_handler" ->
            LET p == ParseProductId(r.path)
            IN  [exc |-> p.exc, call |-> ServiceCall("delete_product", p.uuid, 0, 0)]
      [] e = "search_products_handler" ->
            LET p == ParsePagination(r.skip, r.limit)
            IN  [exc |-> p.exc, call |-> ServiceCall("search_products", <<>>, p.skip, p.limit)]
      [] e = "get_products_by_category_handler" ->
            IF Falsy(r.path)
            THEN [exc |-> LambdaException(400, "categoria is required", <<>>),
                  call |-> NoCall]
            ELSE LET p == ParsePagination(r.skip, r.limit)
                 IN  [exc |-> p.exc,
                      call |-> ServiceCall("get_products_by_category", r.path.val,
                                           p.skip, p.limit)]

\* variant: the 404 message built from str(product_uuid)
NotFoundArgNormalised(r) ==
    LET u == UUIDOfStr(r.path.val)
    IN  IF u.ok THEN UUIDStr(u.val) ELSE r.path.val

\* the identifier the 404 message is built from: the path string as received
NotFoundArg(r) == r.path.val

\* raise LambdaException(404, f"Product not found: {product_id}") and the SKU variant
NotFound(e, r) ==
    IF e = "get_product_by_sku_handler"
    THEN LambdaException(404, "Product not found with SKU: ", NotFoundArg(r))
    ELSE LambdaException(404, "Product not found: ", NotFoundArg(r))

\* The try body of handler e from the point its await of the domain service
\* completes with d: a value, a falsy value (None / False), or an exception.
PostCall(e, r, d) ==
    IF d.kind \notin {"value", "empty"} THEN Raised(d.kind, d.msg)
    ELSE IF e = "create_product_handler"
         THEN IF d.kind = "value" THEN created_response("product")
              ELSE Raised("AttributeError", "'NoneType' object has no attribute 'dict'")
    ELSE IF e \in {"get_product_handler", "get_product_by_sku_handler",
                   "update_product_handler"}
         THEN IF d.kind = "value" THEN success_response("product") ELSE NotFound(e, r)
    ELSE IF e = "delete_product_handler"
         THEN IF d.kind = "value" THEN success_response("Product deleted successfully")
              ELSE NotFound(e, r)
    ELSE IF d.kind = "value" THEN success_response("products")
         ELSE Raised("AttributeError", "'NoneType' object has no attribute 'dict'")

\* ------------------------------------------------------------------------
\* Except clauses
\* ------------------------------------------------------------------------

ReRaise == [catch |-> "LambdaException", act |-> "reraise", status |-> 0]
OnValidation == [catch |-> "ValidationException", act |-> "message", status |-> 400]
OnBusinessRule == [catch |-> "BusinessRuleException", act |-> "message", status |-> 409]
OnException == [catch |-> "Exception", act |-> "internal", status |-> 500]

\* variant: no handler has the "except LambdaException: raise" clause
ExceptClausesNoReRaise(e) ==
    CASE e = "create_product_handler" -> <<OnValidation, OnBusinessRule, OnException>>
      [] e = "update_product_handler" -> <<OnValidation, OnBusinessRule, OnException>>
      [] e = "search_products_handler" -> <<OnValidation, OnException>>
      [] OTHER -> <<OnException>>

\* the except clauses of each handler, in source order
ExceptClauses(e) ==
    CASE e = "create_product_handler" -> <<OnValidation, OnBusinessRule, OnException>>
      [] e = "get_product_handler" -> <<ReRaise, OnException>>
      [] e = "get_product_by_sku_handler" -> <<ReRaise, OnException>>
      [] e = "list_products_handler" -> <<ReRaise, OnException>>
      [] e = "update_product_handler" ->
            <<ReRaise, OnValidation, OnBusinessRule, OnException>>
      [] e = "delete_product_handler" -> <<ReRaise, OnException>>
      [] e = "search_products_handler" -> <<ReRaise, OnValidation, OnException>>
      [] e = "get_products_by_category_handler" -> <<ReRaise, OnException>>

\* variant: the clause returns an error response instead of raising
ClauseRaisesReturning(c, exc) ==
    CASE c.act = "reraise" -> exc
      [] c.act = "message" ->
            [cls |-> "return", status |-> c.status, text |-> exc.text, arg |-> <<>>]
      [] c.act = "internal" ->
            [cls |-> "return", status |-> c.status, text |-> "Internal server error",
             arg |-> <<>>]

\* what one clause raises for the exception it caught
ClauseRaises(c, exc) ==
    CASE c.act = "reraise" -> exc
      [] c.act = "message" -> LambdaException(c.status, exc.text, <<>>)
      [] c.act = "internal" -> LambdaException(c.status, "Internal server error", <<>>)

\* try/except dispatch: the first clause whose class matches handles the
\* exception; with no matching clause the exception propagates as it is
RECURSIVE Dispatch(_, _)
Dispatch(exc, clauses) ==
    IF clauses = <<>> THEN exc
    ELSE IF IsInstance(exc, Head(clauses).catch) THEN ClauseRaises(Head(clauses), exc)
    ELSE Dispatch(exc, Tail(clauses))

\* ------------------------------------------------------------------------
\* Requests and domain-service results
\* ------------------------------------------------------------------------

Hex32 ==
    <<"1", "2", "3", "4", "5", "6", "7", "8", "9", "a", "b", "c", "d", "e", "f", "0",
      "1", "2", "3", "4", "5", "6", "7", "8", "9", "a", "b", "c", "d", "e", "f", "0">>

CanonicalId == UUIDStr(Hex32)
UpperBareId ==
    [k \in 1..32 |-> CASE Hex32[k] = "a" -> "A" [] Hex32[k] = "b" -> "B"
                       [] Hex32[k] = "c" -> "C" [] Hex32[k] = "d" -> "D"
                       [] Hex32[k] = "e" -> "E" [] Hex32[k] = "f" -> "F"
                       [] OTHER -> Hex32[k]]
BracedId == <<"{">> \o CanonicalId \o <<"}">>
ShortId == SubSeq(CanonicalId, 1, 35)
NonHexId == [k \in 1..32 |-> "z"]
WordId == <<"a", "b", "c">>

\* values of the route's path parameter (product_id, sku or categoria)
PathValues ==
    {Absent, Given(<<>>), Given(WordId), Given(ShortId), Given(NonHexId),
     Given(CanonicalId), Given(UpperBareId), Given(BracedId)}

SkipValues ==
    {Absent, Given(<<"-", "1">>), Given(<<"0">>), Given(<<"2">>), Given(<<"1", "x">>)}

LimitValues ==
    {Absent, Given(<<"0">>), Given(<<"1">>), Given(<<"1", "0", "0", "0">>),
     Given(<<"1", "0", "0", "1">>), Given(<<"t", "e", "n">>)}

ProdutoPermissions ==
    {"produto:create", "produto:read", "produto:update", "produto:delete",
     "produto:search"}

Anonymous == [authenticated |-> FALSE, perms |-> {}]
User(ps) == [authenticated |-> TRUE, perms |-> ps]

Callers ==
    {Anonymous, User({}), User({"estoque:write"}), User({"produto:read"}),
     User(ProdutoPermissions), User(ProdutoPermissions \cup {"estoque:write"})}

BodyValues == {"valid", "invalid"}

Request(e, c, b, p, sk, li) ==
    [endpoint |-> e, caller |-> c, body |-> b, path |-> p, skip |-> sk, limit |-> li]

Requests ==
    {Request(e, c, b, p, sk, li) :
        e \in Endpoints, c \in Callers, b \in BodyValues, p \in PathValues,
        sk \in SkipValues, li \in LimitValues}

NoRequest == Request("none", Anonymous, "valid", Absent, Absent, Absent)

Writer == User({"estoque:write"})

\* the requests of the concurrent runs: one per pipeline exit
ScenarioRequests ==
    {Request("create_product_handler", Writer, "valid", Absent, Absent, Absent),
     Request("update_product_handler", Writer, "invalid", Given(CanonicalId), Absent, Absent),
     Request("get_product_handler", Anonymous, "valid", Given(CanonicalId), Absent, Absent),
     Request("get_product_handler", User({}), "valid", Given(CanonicalId), Absent, Absent),
     Request("get_product_handler", Writer, "valid", Given(WordId), Absent, Absent),
     Request("get_product_handler", Writer, "valid", Given(CanonicalId), Absent, Absent)}

DomainMessages == {"SKU already exists", "price must be positive"}

DomainResult(k, m) == [kind |-> k, msg |-> m]

\* what the awaited domain-service call can complete with
DomainResults ==
    {DomainResult("value", ""), DomainResult("empty", ""),
     DomainResult("Exception", "connection lost")}
    \cup {DomainResult(k, m) :
            k \in {"ValidationException", "BusinessRuleException"}, m \in DomainMessages}

\* ------------------------------------------------------------------------
\* State
\* ------------------------------------------------------------------------

Inv == 1..MaxInv

\* the invocation the single-invocation specification runs
Solo == {1}

VARIABLES
    pc,         \* pc[i]: the stage invocation i is at
    req,        \* req[i]: the request context of invocation i
    entered,    \* entered[i]: the handler body of invocation i has started
    thrown,     \* thrown[i]: the exception raised inside the handler's try body
    signal,     \* signal[i]: what reached lambda_handler (a return or an exception)
    resp,       \* resp[i]: the response envelope returned to the platform
    calls,      \* calls[i]: the domain-service calls invocation i made
    dres,       \* dres[i]: what the awaited domain-service call completed with
    produced,   \* produced[i]: number of outcomes (return or raise) of the stages
    session,    \* session[i]: none / open / committed / rolledback
    acquired,   \* number of session acquisitions
    commits,    \* number of session commits
    rollbacks   \* number of session rollbacks

vars == <<pc, req, entered, thrown, signal, resp, calls, dres, produced, session,
          acquired, commits, rollbacks>>

NoResult == [kind |-> "none", msg |-> ""]

NoResponse == [status |-> 0, ok |-> FALSE, text |-> "", arg |-> <<>>]

Init ==
    /\ pc = [i \in Inv |-> "idle"]
    /\ req = [i \in Inv |-> NoRequest]
    /\ entered = [i \in Inv |-> FALSE]
    /\ thrown = [i \in Inv |-> NoExc]
    /\ signal = [i \in Inv |-> NoExc]
    /\ resp = [i \in Inv |-> NoResponse]
    /\ calls = [i \in Inv |-> <<>>]
    /\ dres = [i \in Inv |-> NoResult]
    /\ produced = [i \in Inv |-> 0]
    /\ session = [i \in Inv |-> "none"]
    /\ acquired = 0
    /\ commits = 0
    /\ rollbacks = 0

\* ------------------------------------------------------------------------
\* Pipeline stages
\* ------------------------------------------------------------------------

\* A stage of invocation i ends by raising exc: control unwinds to lambda_handler.
Fail(i, exc) ==
    /\ signal' = [signal EXCEPT ![i] = exc]
    /\ produced' = [produced EXCEPT ![i] = @ + 1]
    /\ pc' = [pc EXCEPT ![i] = "unwind"]

\* A stage of invocation i lets the request through to the next stage.
Pass(i, stage) ==
    /\ pc' = [pc EXCEPT ![i] = NextStage(req[i].endpoint, stage)]
    /\ UNCHANGED <<signal, produced>>

\* lambda_handler, entry: builds the request context and opens the session
Receive(i, r) ==
    /\ pc[i] = "idle"
    /\ req' = [req EXCEPT ![i] = r]
    /\ session' = [session EXCEPT ![i] = "open"]
    /\ acquired' = acquired + 1
    /\ pc' = [pc EXCEPT ![i] = DecoratorStack(r.endpoint)[1]]
    /\ UNCHANGED <<entered, thrown, signal, resp, calls, dres, produced, commits, rollbacks>>

\* @with_auth: resolves the caller; no valid credential is a 401
with_auth(i) ==
    /\ pc[i] = "with_auth"
    /\ IF ~req[i].caller.authenticated
       THEN Fail(i, LambdaException(401, "Unauthorized", <<>>))
       ELSE Pass(i, "with_auth")
    /\ UNCHANGED <<req, entered, thrown, resp, calls, dres, session, acquired, commits,
                   rollbacks>>

\* @require_permission(p): p missing from the caller's permissions is a 403
require_permission(i) ==
    /\ pc[i] = "require_permission"
    /\ IF RequiredPermission(req[i].endpoint) \notin req[i].caller.perms
       THEN Fail(i, LambdaException(403, "Insufficient permissions", <<>>))
       ELSE Pass(i, "require_permission")
    /\ UNCHANGED <<req, entered, thrown, resp, calls, dres, session, acquired, commits,
                   rollbacks>>

\* @validate_request_body(DTO): a body the schema rejects is a 400
validate_request_body(i) ==
    /\ pc[i] = "validate_request_body"
    /\ IF req[i].body # "valid"
       THEN Fail(i, LambdaException(400, "Validation error", <<>>))
       ELSE Pass(i, "validate_request_body")
    /\ UNCHANGED <<req, entered, thrown, resp, calls, dres, session, acquired, commits,
                   rollbacks>>

\* The handler body runs up to its await of the domain service, or raises
\* before it; an exception goes through the handler's except clauses.
HandlerEnter(i) ==
    /\ pc[i] = "handler"
    /\ entered' = [entered EXCEPT ![i] = TRUE]
    /\ LET e == req[i].endpoint
           pre == PreCall(e, req[i])
       IN  IF pre.exc # NoExc
           THEN /\ thrown' = [thrown EXCEPT ![i] = pre.exc]
                /\ Fail(i, Dispatch(pre.exc, ExceptClauses(e)))
                /\ UNCHANGED calls
           ELSE /\ calls' = [calls EXCEPT ![i] = Append(@, pre.call)]
                /\ pc' = [pc EXCEPT ![i] = "awaiting"]
                /\ UNCHANGED <<thrown, signal, produced>>
    /\ UNCHANGED <<req, resp, dres, session, acquired, commits, rollbacks>>

\* The awaited domain-service call completes with d; the handler maps it to a
\* response or raises, and an exception goes through the except clauses.
HandlerResume(i, d) ==
    /\ pc[i] = "awaiting"
    /\ dres' = [dres EXCEPT ![i] = d]
    /\ LET e == req[i].endpoint
           post == PostCall(e, req[i], d)
       IN  IF post.cls = "return"
           THEN /\ signal' = [signal EXCEPT ![i] = post]
                /\ produced' = [produced EXCEPT ![i] = @ + 1]
                /\ pc' = [pc EXCEPT ![i] = "unwind"]
                /\ UNCHANGED thrown
           ELSE /\ thrown' = [thrown EXCEPT ![i] = post]
                /\ Fail(i, Dispatch(post, ExceptClauses(e)))
    /\ UNCHANGED <<req, entered, resp, calls, session, acquired, commits, rollbacks>>

\* the session is committed on a normal return and rolled back on any failure
Release(sig) == IF sig.cls = "return" THEN "committed" ELSE "rolledback"

\* the envelope for what reached lambda_handler: a return keeps its status, a
\* LambdaException its status and message, anything else is a generic 500
Envelope(sig) ==
    CASE sig.cls = "return" ->
            [status |-> sig.status, ok |-> TRUE, text |-> sig.text, arg |-> sig.arg]
      [] sig.cls = "LambdaException" ->
            [status |-> sig.status, ok |-> FALSE, text |-> sig.text, arg |-> sig.arg]
      [] OTHER ->
            [status |-> 500, ok |-> FALSE, text |-> "Internal server error", arg |-> <<>>]

\* lambda_handler, exit: finalizes the session and answers the platform
lambda_handler(i) ==
    /\ pc[i] = "unwind"
    /\ session[i] = "open"
    /\ session' = [session EXCEPT ![i] = Release(signal[i])]
    /\ commits' = IF Release(signal[i]) = "committed" THEN commits + 1 ELSE commits
    /\ rollbacks' = IF Release(signal[i]) = "rolledback" THEN rollbacks + 1 ELSE rollbacks
    /\ resp' = [resp EXCEPT ![i] = Envelope(signal[i])]
    /\ pc' = [pc EXCEPT ![i] = "done"]
    /\ UNCHANGED <<req, entered, thrown, signal, calls, dres, produced, acquired>>

\* ------------------------------------------------------------------------
\* Specifications
\* ------------------------------------------------------------------------

\* one invocation, every request
Next ==
    \E i \in Solo :
        \/ pc[i] = "idle" /\ \E r \in Requests : Receive(i, r)
        \/ with_auth(i)
        \/ require_permission(i)
        \/ validate_request_body(i)
        \/ HandlerEnter(i)
        \/ pc[i] = "awaiting" /\ \E d \in DomainResults : HandlerResume(i, d)
        \/ lambda_handler(i)

Spec == Init /\ [][Next]_vars

\* concurrent invocations, one request per pipeline exit
ConcNext ==
    \E i \in Inv :
        \/ pc[i] = "idle" /\ \E r \in ScenarioRequests : Receive(i, r)
        \/ with_auth(i)
        \/ require_permission(i)
        \/ validate_request_body(i)
        \/ HandlerEnter(i)
        \/ pc[i] = "awaiting" /\ \E d \in DomainResults : HandlerResume(i, d)
        \/ lambda_handler(i)

ConcSpec == Init /\ [][ConcNext]_vars

\* ------------------------------------------------------------------------
\* Vocabulary of the properties
\* ------------------------------------------------------------------------

Started(i) == pc[i] # "idle"
Done(i) == pc[i] = "done"
Authenticated(i) == req[i].caller.authenticated
Permitted(i) == RequiredPermission(req[i].endpoint) \in req[i].caller.perms
Admitted(i) == Authenticated(i) /\ Permitted(i)

IdEndpoints == {"get_product_handler", "update_product_handler", "delete_product_handler"}
PagedEndpoints ==
    {"list_products_handler", "search_products_handler", "get_products_by_category_handler"}

\* the permission column of the interface table
TablePermission(e) ==
    CASE e = "create_product_handler" -> "produto:create"
      [] e = "update_product_handler" -> "produto:update"
      [] e = "delete_product_handler" -> "produto:delete"
      [] e = "search_products_handler" -> "produto:search"
      [] OTHER -> "produto:read"

SkipOf(r) == IntOfQuery(r.skip, DefaultSkip)
LimitOf(r) == IntOfQuery(r.limit, DefaultLimit)

\* skip < 0 or limit outside [1, 1000], for the values that are numbers
OutOfBounds(r) ==
    \/ SkipOf(r).ok /\ SkipOf(r).val < 0
    \/ LimitOf(r).ok /\ (LimitOf(r).val < 1 \/ LimitOf(r).val > 1000)

\* skip or limit present but not an integer literal
NotAnInteger(r) == ~SkipOf(r).ok \/ ~LimitOf(r).ok

\* s is the digits of a parsed UUID
IsUUIDValue(s) == Len(s) = 32 /\ \A k \in 1..Len(s) : s[k] \in Digits \cup LowerHex

FinalStatuses == {400, 401, 403, 404, 409, 500}

\* ------------------------------------------------------------------------
\* Properties
\* ------------------------------------------------------------------------

\* C1: an invocation of any product endpoint whose (authenticated) caller lacks
\* the permission the endpoint requires never enters the handler body, makes no
\* domain-service call and is answered 403, whatever its body, path parameter
\* and query parameters are.
C1_PermissionDenied ==
    \A i \in Inv :
        (Started(i) /\ Authenticated(i) /\ ~Permitted(i)) =>
            /\ ~entered[i]
            /\ calls[i] = <<>>
            /\ pc[i] \notin {"validate_request_body", "handler", "awaiting"}
            /\ Done(i) => (resp[i].status = 403 /\ ~resp[i].ok)

\* a denied create with a body the validator would reject, a malformed path
\* parameter and a non-integer skip has been answered
C1_Witness ==
    \E i \in Inv :
        /\ Done(i)
        /\ req[i].endpoint = "create_product_handler"
        /\ req[i].caller = User({"produto:read"})
        /\ req[i].body = "invalid"
        /\ req[i].path = Given(WordId)
        /\ ~SkipOf(req[i]).ok
        /\ resp[i].status = 403

\* C2: every acquired session is finalized exactly once: committed when the
\* invocation ends in a success envelope, rolled back when it ends in any
\* failure (400, 401, 403, 404, 409, 500); the counts of commits and rollbacks
\* are the counts of committed and rolled-back sessions, and once every started
\* invocation is finished commits + rollbacks = acquisitions.
C2_SessionExactlyOnce ==
    /\ acquired = Cardinality({i \in Inv : session[i] # "none"})
    /\ commits = Cardinality({i \in Inv : session[i] = "committed"})
    /\ rollbacks = Cardinality({i \in Inv : session[i] = "rolledback"})
    /\ \A i \in Inv :
        /\ Done(i) <=> session[i] \in {"committed", "rolledback"}
        /\ Done(i) =>
            /\ session[i] = "committed" <=> resp[i].status \in {200, 201}
            /\ session[i] = "rolledback" <=> resp[i].status \in FinalStatuses
    /\ (\A i \in Inv : pc[i] \in {"idle", "done"}) => commits + rollbacks = acquired

\* all invocations ran concurrently to the end, one committed, one rolled back
\* after a failure raised inside the handler
C2_Witness ==
    /\ \A i \in Inv : Done(i)
    /\ \E i \in Inv : session[i] = "committed"
    /\ \E i \in Inv : session[i] = "rolledback" /\ thrown[i] # NoExc
    /\ commits + rollbacks = MaxInv

\* C3: for every admitted list, search and by-category request, skip < 0 or
\* limit outside [1, 1000] ends in a 400 without a domain-service call, and
\* the domain service is only called with skip >= 0 and 1 <= limit <= 1000.
C3_PaginationRejected ==
    \A i \in Inv :
        (Started(i) /\ req[i].endpoint \in PagedEndpoints) =>
            /\ \A k \in 1..Len(calls[i]) :
                /\ calls[i][k].skip >= 0
                /\ calls[i][k].limit >= 1
                /\ calls[i][k].limit <= 1000
            /\ (Admitted(i) /\ OutOfBounds(req[i])) =>
                /\ calls[i] = <<>>
                /\ Done(i) => resp[i].status = 400

\* C4 as stated: every admitted search with skip < 0 is answered 400
\* "skip must be >= 0", whatever the body.
C4_AsStated ==
    \A i \in Inv :
        (Done(i) /\ req[i].endpoint = "search_products_handler" /\ Admitted(i)
            /\ SkipOf(req[i]).ok /\ SkipOf(req[i]).val < 0) =>
            /\ resp[i].status = 400
            /\ resp[i].text = "skip must be >= 0"

\* C4 amended: every admitted search with skip < 0 ends in an error without a
\* domain-service call; a body the validator rejects is answered by the
\* validator's 400 before the handler body runs, and a body it accepts, with
\* limit absent or an integer, is answered 400 "skip must be >= 0".
C4_SearchSkipNegative ==
    \A i \in Inv :
        (Started(i) /\ req[i].endpoint = "search_products_handler" /\ Admitted(i)
            /\ SkipOf(req[i]).ok /\ SkipOf(req[i]).val < 0) =>
            /\ calls[i] = <<>>
            /\ Done(i) => ~resp[i].ok
            /\ (Done(i) /\ req[i].body # "valid") =>
                /\ ~entered[i]
                /\ resp[i].status = 400
                /\ resp[i].text # "skip must be >= 0"
            /\ (Done(i) /\ req[i].body = "valid" /\ LimitOf(req[i]).ok) =>
                /\ entered[i]
                /\ resp[i].status = 400
                /\ resp[i].text = "skip must be >= 0"

\* an admitted search with a valid body, skip = -1 and limit = 0 was answered
\* with the skip message
C4_Witness ==
    \E i \in Inv :
        /\ Done(i)
        /\ req[i].endpoint = "search_products_handler"
        /\ Admitted(i)
        /\ req[i].body = "valid"
        /\ req[i].skip = Given(<<"-", "1">>)
        /\ req[i].limit = Given(<<"0">>)
        /\ resp[i].text = "skip must be >= 0"

\* C5: every endpoint demands exactly the permission of the interface table:
\* an authenticated caller is rejected by the permission check exactly when
\* that permission is missing from its permissions.
C5_TablePermissions ==
    \A i \in Inv :
        (Done(i) /\ Authenticated(i)) =>
            (resp[i].status = 403 <=> TablePermission(req[i].endpoint) \notin req[i].caller.perms)

\* C6: in every handler a ValidationException raised by the domain-service
\* call ends in a 400 and a BusinessRuleException in a 409, each with the
\* domain failure's message.
C6_DomainFailuresMapped ==
    \A i \in Inv :
        Done(i) =>
            /\ dres[i].kind = "ValidationException" =>
                (resp[i].status = 400 /\ resp[i].text = dres[i].msg)
            /\ dres[i].kind = "BusinessRuleException" =>
                (resp[i].status = 409 /\ resp[i].text = dres[i].msg)

\* C7: for get by id, update, delete and get by sku, a falsy domain result
\* ends in a 404 whose message names the identifier exactly as the path gave
\* it, and in no success envelope.
C7_NotFoundNamesIdentifier ==
    \A i \in Inv :
        (req[i].endpoint \in IdEndpoints \cup {"get_product_by_sku_handler"}
            /\ dres[i].kind = "empty") =>
            /\ signal[i] = thrown[i]
            /\ signal[i].cls = "LambdaException"
            /\ signal[i].status = 404
            /\ signal[i].arg = req[i].path.val
            /\ signal[i].text = (IF req[i].endpoint = "get_product_by_sku_handler"
                                 THEN "Product not found with SKU: "
                                 ELSE "Product not found: ")
            /\ Done(i) => (resp[i].status = 404 /\ ~resp[i].ok
                            /\ resp[i].arg = req[i].path.val
                            /\ resp[i].text = signal[i].text)

\* an update whose path gave the identifier in upper case without hyphens was
\* answered 404
C7_Witness ==
    \E i \in Inv :
        /\ Done(i)
        /\ req[i].endpoint = "update_product_handler"
        /\ req[i].path = Given(UpperBareId)
        /\ dres[i].kind = "empty"
        /\ resp[i].status = 404

\* C8: for get by id, update and delete the domain service is only called
\* with an identifier that parsed as a UUID, and an admitted request whose
\* product_id is missing, empty or malformed ends in a 400 without any call.
C8_MalformedIdRejected ==
    \A i \in Inv :
        (Started(i) /\ req[i].endpoint \in IdEndpoints) =>
            /\ \A k \in 1..Len(calls[i]) :
                /\ IsUUIDValue(calls[i][k].id)
                /\ UUIDOfStr(req[i].path.val).ok
            /\ (Falsy(req[i].path) \/ ~UUIDOfStr(req[i].path.val).ok) =>
                /\ calls[i] = <<>>
                /\ (Done(i) /\ Admitted(i)) => (resp[i].status = 400 /\ ~resp[i].ok)

\* an admitted delete with 32 non-hexadecimal characters as product_id was
\* answered 400
C8_Witness ==
    \E i \in Inv :
        /\ Done(i)
        /\ req[i].endpoint = "delete_product_handler"
        /\ Admitted(i)
        /\ req[i].path = Given(NonHexId)
        /\ resp[i].status = 400
        /\ resp[i].text = "Invalid product_id format"

\* C9: a handler that ran leaves exactly one outcome, exactly once: a return
\* or a LambdaException; an exception raised in its try body never ends in a
\* return and never leaves as another class, and a LambdaException raised in
\* the try body (400 / 404) leaves with its status and message unchanged.
C9_OneOutcome ==
    \A i \in Inv :
        /\ pc[i] \in {"unwind", "done"} <=> produced[i] = 1
        /\ pc[i] \notin {"unwind", "done"} => (produced[i] = 0 /\ signal[i] = NoExc)
        /\ (entered[i] /\ pc[i] \in {"unwind", "done"}) =>
            /\ signal[i].cls \in {"return", "LambdaException"}
            /\ thrown[i] # NoExc => signal[i].cls = "LambdaException"
            /\ thrown[i] = NoExc => signal[i].cls = "return"
            /\ thrown[i].cls = "LambdaException" => signal[i] = thrown[i]
            /\ thrown[i].cls \notin {"none", "LambdaException", "ValidationException",
                                     "BusinessRuleException"} => signal[i].status = 500
            /\ Done(i) =>
                /\ resp[i].ok <=> signal[i].cls = "return"
                /\ resp[i].status = signal[i].status
                /\ resp[i].text = signal[i].text

\* a get by id whose lookup found nothing left its 404 unchanged
C9_Witness ==
    \E i \in Inv :
        /\ Done(i)
        /\ req[i].endpoint = "get_product_handler"
        /\ thrown[i].cls = "LambdaException"
        /\ thrown[i].status = 404
        /\ resp[i].status = 404

\* C10: for every admitted list, search and by-category request, a skip or
\* limit that is present but not an integer ends in a 400 and no
\* domain-service call.
C10_NonIntegerRejected ==
    \A i \in Inv :
        (Done(i) /\ req[i].endpoint \in PagedEndpoints /\ Admitted(i)
            /\ NotAnInteger(req[i])) =>
            /\ resp[i].status = 400
            /\ calls[i] = <<>>

====
